---- MODULE Spec2Model ----
(***************************************************************************)
(* Model of sample-solutions/open_meteo_script_v3.py: the pydantic (v1)    *)
(* models OpenMeteoResponse / HourlyData / WeatherData / WeatherDatasets,  *)
(* the aggregation compute_daily_averages, the confidence bounds and the   *)
(* JSON serialisation written by save_data.                                *)
(*                                                                         *)
(* Numbers.  A JSON number of a payload is kept as a decimal literal in    *)
(* hundredths (the integer -27315 is the literal -273.15).  Wherever the   *)
(* code compares floats against the temperature floor the literal is       *)
(* converted to its IEEE-754 binary64 value and the floor is computed with *)
(* binary64 rounding, bit for bit.  Statistics (mean, std) are computed on *)
(* the hundredths and rounded down to hundredths.                          *)
(***************************************************************************)
EXTENDS Integers, Sequences, FiniteSets

(***************************************************************************)
(* Python values of a payload                                              *)
(***************************************************************************)
\* A float given by its decimal literal, in hundredths.
Num(v) == [k |-> "num", v |-> v]
\* None (JSON null).
None == [k |-> "none", v |-> 0]
\* float("nan") and float("inf").
NaN == [k |-> "nan", v |-> 0]
Inf == [k |-> "inf", v |-> 0]

(***************************************************************************)
(* IEEE-754 binary64 arithmetic on bit sequences (most significant first)  *)
(***************************************************************************)
\* A mantissa is a sequence of bits; arithmetic is done on limbs of 8 bits.
MantissaBits == 53
FracLimbCount == 8
GuardLen == 8
LimbBase == 256

Zeros(n) == [i \in 1..n |-> 0]

\* The bits of the natural n < 2^30, without leading zeros.
BitsOf(n) ==
  LET L == CHOOSE L \in 0..30 : n < 2 ^ L /\ (L = 0 \/ 2 ^ (L - 1) <= n)
  IN [i \in 1..L |-> (n \div 2 ^ (L - i)) % 2]

StripZeros(b) ==
  IF \A i \in 1..Len(b) : b[i] = 0 THEN <<>>
  ELSE LET f == CHOOSE i \in 1..Len(b) :
                  b[i] = 1 /\ \A j \in 1..(i - 1) : b[j] = 0
       IN SubSeq(b, f, Len(b))

\* b with zeros put before it up to a whole number of limbs.
PadLeft(b) == Zeros((8 - (Len(b) % 8)) % 8) \o b

Byte(b, i) ==
  b[i] * 128 + b[i + 1] * 64 + b[i + 2] * 32 + b[i + 3] * 16
  + b[i + 4] * 8 + b[i + 5] * 4 + b[i + 6] * 2 + b[i + 7]

\* The limbs of a bit sequence of a whole number of limbs, and back.
ToLimbs(b) == [j \in 1..(Len(b) \div 8) |-> Byte(b, 8 * (j - 1) + 1)]
FromLimbs(l) ==
  [i \in 1..(8 * Len(l)) |-> (l[(i - 1) \div 8 + 1] \div 2 ^ (7 - ((i - 1) % 8))) % 2]

\* The first k limbs of the binary expansion of r/den (0 <= r < den), and
\* the remainder left.
RECURSIVE FracLimbs(_, _, _)
FracLimbs(r, den, k) ==
  IF k = 0 THEN [limbs |-> <<>>, rem |-> r]
  ELSE LET t == r * LimbBase
           rest == FracLimbs(t % den, den, k - 1)
       IN [limbs |-> <<t \div den>> \o rest.limbs, rem |-> rest.rem]

\* b + 1, with the carry out of the first bit.
Inc(b) ==
  IF \A i \in 1..Len(b) : b[i] = 1
  THEN [bits |-> Zeros(Len(b)), carry |-> 1]
  ELSE LET p == CHOOSE i \in 1..Len(b) :
                  b[i] = 0 /\ \A j \in (i + 1)..Len(b) : b[j] = 1
       IN [bits |-> [i \in 1..Len(b) |->
                       IF i < p THEN b[i] ELSE IF i = p THEN 1 ELSE 0],
           carry |-> 0]

FZero == [k |-> "zero", s |-> 0, e |-> 0, m |-> <<>>]
FNaN == [k |-> "nan", s |-> 0, e |-> 0, m |-> <<>>]
FInf(s) == [k |-> "inf", s |-> s, e |-> 0, m |-> <<>>]
FNone == [k |-> "none", s |-> 0, e |-> 0, m |-> <<>>]

\* Round to nearest, ties to even: the binary64 value of the number whose
\* bits are b, the first of weight 2^e; sticky says the exact value has
\* further nonzero bits below b.
RoundBits(s, b, e, sticky) ==
  LET c == StripZeros(b)
      e1 == e - (Len(b) - Len(c))
  IN IF c = <<>> THEN FZero
     ELSE IF Len(c) <= MantissaBits
     THEN [k |-> "fin", s |-> s, e |-> e1,
           m |-> c \o Zeros(MantissaBits - Len(c))]
     ELSE LET head == SubSeq(c, 1, MantissaBits)
              guard == c[MantissaBits + 1]
              low == \E i \in (MantissaBits + 2)..Len(c) : c[i] = 1
              up == guard = 1 /\ (low \/ sticky \/ head[MantissaBits] = 1)
              r == Inc(head)
          IN IF ~up THEN [k |-> "fin", s |-> s, e |-> e1, m |-> head]
             ELSE IF r.carry = 1
             THEN [k |-> "fin", s |-> s, e |-> e1 + 1,
                   m |-> <<1>> \o Zeros(MantissaBits - 1)]
             ELSE [k |-> "fin", s |-> s, e |-> e1, m |-> r.bits]

\* float(<literal>): the binary64 nearest to a/100.
ParseDec(a) ==
  LET n == IF a < 0 THEN -a ELSE a
      q == BitsOf(n \div 100)
      f == FracLimbs(n % 100, 100, FracLimbCount)
  IN RoundBits(IF a < 0 THEN 1 ELSE 0, q \o FromLimbs(f.limbs), Len(q) - 1,
               f.rem # 0)

\* l * n + c on limbs, n < 256: limbs 1..i of l, with the carry limb first.
RECURSIVE MulLimbs(_, _, _, _)
MulLimbs(l, i, n, c) ==
  IF i = 0 THEN <<c>>
  ELSE LET t == l[i] * n + c
       IN Append(MulLimbs(l, i - 1, n, t \div LimbBase), t % LimbBase)

\* x * n, n a small positive integer (exactly representable).
FMulInt(x, n) ==
  IF x.k # "fin" THEN x
  ELSE LET b == PadLeft(x.m)
           l == ToLimbs(b)
           p == FromLimbs(MulLimbs(l, Len(l), n, 0))
       IN RoundBits(x.s, p, x.e + (Len(p) - MantissaBits), FALSE)

\* The quotient limbs of l[i..] / n, continuing from remainder r.
RECURSIVE DivLimbs(_, _, _, _)
DivLimbs(l, i, n, r) ==
  IF i > Len(l) THEN [limbs |-> <<>>, rem |-> r]
  ELSE LET t == r * LimbBase + l[i]
           rest == DivLimbs(l, i + 1, n, t % n)
       IN [limbs |-> <<t \div n>> \o rest.limbs, rem |-> rest.rem]

\* x / n, n a small positive integer.
FDivInt(x, n) ==
  IF x.k # "fin" THEN x
  ELSE LET b == PadLeft(x.m \o Zeros(GuardLen))
           d == DivLimbs(ToLimbs(b), 1, n, 0)
       IN RoundBits(x.s, FromLimbs(d.limbs),
                    x.e + (Len(b) - MantissaBits - GuardLen), d.rem # 0)

\* < 0, = 0, > 0 as a is below, equal to, above b (equal lengths).
CmpBits(a, b) ==
  IF a = b THEN 0
  ELSE LET i == CHOOSE i \in 1..Len(a) :
                  a[i] # b[i] /\ \A j \in 1..(i - 1) : a[j] = b[j]
       IN a[i] - b[i]

\* a + b + c on limbs 1..i of equal-length sequences, the carry limb first.
RECURSIVE AddLimbs(_, _, _, _)
AddLimbs(a, b, i, c) ==
  IF i = 0 THEN <<c>>
  ELSE LET t == a[i] + b[i] + c
       IN Append(AddLimbs(a, b, i - 1, t \div LimbBase), t % LimbBase)

\* a - b - c on limbs 1..i of equal-length sequences, a >= b + c.
RECURSIVE SubLimbs(_, _, _, _)
SubLimbs(a, b, i, c) ==
  IF i = 0 THEN <<>>
  ELSE LET t == a[i] - b[i] - c
       IN Append(SubLimbs(a, b, i - 1, IF t < 0 THEN 1 ELSE 0),
                 IF t < 0 THEN t + LimbBase ELSE t)

\* x + y on finite values.
FAdd(x, y) ==
  IF x.k = "zero" THEN y
  ELSE IF y.k = "zero" THEN x
  ELSE LET lo == IF x.e < y.e THEN x.e ELSE y.e
           hi == IF x.e < y.e THEN y.e ELSE x.e
           a == PadLeft(Zeros(hi - x.e) \o x.m \o Zeros(x.e - lo))
           b == PadLeft(Zeros(hi - y.e) \o y.m \o Zeros(y.e - lo))
           top == hi + (Len(a) - MantissaBits - (hi - lo))
           la == ToLimbs(a)
           lb == ToLimbs(b)
           c == CmpBits(a, b)
       IN IF x.s = y.s
          THEN RoundBits(x.s, FromLimbs(AddLimbs(la, lb, Len(la), 0)),
                         top + 8, FALSE)
          ELSE IF c = 0 THEN FZero
          ELSE IF c > 0
          THEN RoundBits(x.s, FromLimbs(SubLimbs(la, lb, Len(la), 0)),
                         top, FALSE)
          ELSE RoundBits(y.s, FromLimbs(SubLimbs(lb, la, Len(la), 0)),
                         top, FALSE)

\* x < y on floats that are not None; false when either is NaN.
FLess(x, y) ==
  LET neg(f) == f.k \in {"fin", "inf"} /\ f.s = 1
      pos(f) == f.k \in {"fin", "inf"} /\ f.s = 0
      magLess(a, b) ==
        \/ a.k = "fin" /\ b.k = "inf"
        \/ a.k = "fin" /\ b.k = "fin"
           /\ (a.e < b.e \/ (a.e = b.e /\ CmpBits(a.m, b.m) < 0))
  IN /\ x.k # "nan" /\ y.k # "nan"
     /\ \/ neg(x) /\ ~neg(y)
        \/ x.k = "zero" /\ pos(y)
        \/ pos(x) /\ pos(y) /\ magLess(x, y)
        \/ neg(x) /\ neg(y) /\ magLess(y, x)

\* x >= y as Python evaluates it on two floats.
FGe(x, y) == x.k # "nan" /\ y.k # "nan" /\ ~FLess(x, y)

\* The float a payload value stands for.
FloatOf(t) ==
  CASE t.k = "num" -> ParseDec(t.v)
    [] t.k = "nan" -> FNaN
    [] t.k = "inf" -> FInf(0)
    [] OTHER -> FNone

(***************************************************************************)
(* Units and program constants                                             *)
(***************************************************************************)
\* TemperatureUnit: the two members, and a tag that is no member.
CELSIUS == "C"
FAHRENHEIT == "F"
NoSuchUnit == "K"

\* ABSOLUTE_ZERO_C = -273.15, the literal in hundredths, and its float.
ABSOLUTE_ZERO_C == -27315
AbsoluteZeroFloat == ParseDec(ABSOLUTE_ZERO_C)

\* min_temp * 9 / 5 + 32, evaluated left to right in binary64.
FahrenheitMinTemp ==
  FAdd(FDivInt(FMulInt(AbsoluteZeroFloat, 9), 5), ParseDec(3200))

\* min_temp of assert_valid_temps for a unit.
min_temp(unit) ==
  IF unit = FAHRENHEIT THEN FahrenheitMinTemp ELSE AbsoluteZeroFloat

(***************************************************************************)
(* Bounds of the model and the inputs drawn                                *)
(***************************************************************************)
\* The most entries of an hourly array of a payload, the most hourly samples
\* of a well-formed payload, and the most days of a statistics file.
MaxLen == 3
MaxHours == 4
MaxStats == 2

SeqsUpTo(S, n) == UNION {[1..k -> S] : k \in 0..n}

Units == {CELSIUS, FAHRENHEIT, NoSuchUnit}
\* Timestamps are given by their day of the year.
Days == {1, 2}
\* Hourly temperatures of a payload: null, the Fahrenheit floor -459.67, a
\* value between the floors, the Celsius floor -273.15, and 0.0, 2.0.
Temps == {None, Num(-45967), Num(-30000), Num(ABSOLUTE_ZERO_C), Num(0), Num(200)}

\* The scalar fields of a payload (latitude, longitude, ...) are taken to
\* be valid; the unit tag and the two hourly arrays vary.
Payloads ==
  [unit : Units, time : SeqsUpTo(Days, MaxLen),
   temperature_2m : SeqsUpTo(Temps, MaxLen)]

\* Well-formed payloads in Celsius: one reading of 0.0 or 2.0 for each
\* timestamp.
Readings == {Num(0), Num(200)}
HourlyPayloads ==
  UNION {[unit : {CELSIUS}, time : [1..k -> Days],
          temperature_2m : [1..k -> Readings]] : k \in 0..MaxHours}

(***************************************************************************)
(* Objects                                                                 *)
(***************************************************************************)
NoResponse ==
  [exists |-> FALSE, unit |-> CELSIUS, time |-> <<>>, temperature_2m |-> <<>>]

NoWeatherData ==
  [exists |-> FALSE, day_of_year |-> <<>>, temp_daily_avg |-> <<>>,
   temp_daily_std |-> <<>>]

NoCall == [op |-> "", exc |-> "", errors |-> {}]
Returned(op) == [op |-> op, exc |-> "", errors |-> {}]
Raised(op, exc, errors) == [op |-> op, exc |-> exc, errors |-> errors]

(***************************************************************************)
(* Validation of a raw observation (pydantic v1)                           *)
(***************************************************************************)
\* HourlyData._root_validator: the length check.
HourlyData_root_validator(values) ==
  IF Len(values.time) # Len(values.temperature_2m)
  THEN {"time array and temperature array are not the same length"}
  ELSE {}

\* The first failure of all(temperature >= min_temp ...): a None raises
\* TypeError, a value below the floor (or a NaN) ends the scan with False.
RECURSIVE FirstBad(_, _, _)
FirstBad(temps, i, floor) ==
  IF i > Len(temps) THEN ""
  ELSE IF temps[i].k = "none" THEN "TypeError"
  ELSE IF ~FGe(FloatOf(temps[i]), floor) THEN "ValueError"
  ELSE FirstBad(temps, i + 1, floor)

\* OpenMeteoResponse.assert_valid_temps on the values validated so far.
\* It runs whether or not a field failed; a field that failed is missing
\* from values, and reading it raises KeyError.
assert_valid_temps(p, unitOk, hourlyOk) ==
  IF ~unitOk THEN [exc |-> "KeyError", errors |-> {}]
  ELSE IF ~hourlyOk THEN [exc |-> "KeyError", errors |-> {}]
  ELSE LET bad == FirstBad(p.temperature_2m, 1, min_temp(p.unit))
       IN IF bad = "TypeError"
          THEN [exc |-> "", errors |-> {"'>=' not supported"}]
          ELSE IF bad = "ValueError"
          THEN [exc |-> "", errors |-> {"Some temperatures are below absolute zero"}]
          ELSE [exc |-> "", errors |-> {}]

\* OpenMeteoResponse(**payload) / parse_raw: the fields in order, then the
\* root validator; the exception raised, if any, and the errors reported.
OpenMeteoResponse(p) ==
  LET unitOk == p.unit \in {CELSIUS, FAHRENHEIT}
      unitErr == IF unitOk THEN {} ELSE {"hourly_units"}
      hourlyErr == HourlyData_root_validator(p)
      root == assert_valid_temps(p, unitOk, hourlyErr = {})
      errors == unitErr \cup hourlyErr \cup root.errors
  IN IF root.exc # "" THEN Raised("OpenMeteoResponse", root.exc, {})
     ELSE IF errors # {} THEN Raised("OpenMeteoResponse", "ValidationError", errors)
     ELSE Returned("OpenMeteoResponse")

Response(p) ==
  [exists |-> TRUE, unit |-> p.unit, time |-> p.time,
   temperature_2m |-> p.temperature_2m]

(***************************************************************************)
(* WeatherData: validation of the three fields (no cross-field validator)  *)
(***************************************************************************)
\* list[PositiveInt]
PositiveInts(xs) == \A i \in 1..Len(xs) : xs[i] > 0

\* confloat(ge=limit) on a list: a value passes unless "not v >= limit";
\* None is no float.
AllGe(xs, limit) ==
  \A i \in 1..Len(xs) : xs[i].k # "none" /\ FGe(FloatOf(xs[i]), limit)

\* WeatherData(**p) / parse_file: the exception raised, if any.
WeatherData(p) ==
  LET errors ==
        (IF PositiveInts(p.day_of_year) THEN {} ELSE {"day_of_year"})
        \cup (IF AllGe(p.temp_daily_avg, AbsoluteZeroFloat)
              THEN {} ELSE {"temp_daily_avg"})
        \cup (IF AllGe(p.temp_daily_std, FZero) THEN {} ELSE {"temp_daily_std"})
  IN IF errors # {} THEN Raised("WeatherData", "ValidationError", errors)
     ELSE Returned("WeatherData")

Stats(p) ==
  [exists |-> TRUE, day_of_year |-> p.day_of_year,
   temp_daily_avg |-> p.temp_daily_avg, temp_daily_std |-> p.temp_daily_std]

(***************************************************************************)
(* compute_daily_averages                                                  *)
(***************************************************************************)
\* The elements of a finite set of integers in ascending order.
Ascending(S) ==
  [i \in 1..Cardinality(S) |->
     CHOOSE d \in S : Cardinality({e \in S : e < d}) = i - 1]

\* groupby("day_of_year"): the group keys, sorted.
GroupKeys(time) == Ascending({time[i] : i \in 1..Len(time)})

\* The rows of day d whose temperature is not missing (pandas skips NaN).
Rows(w, d) ==
  {i \in 1..Len(w.time) : w.time[i] = d /\ w.temperature_2m[i].k = "num"}

RECURSIVE SumOver(_, _)
SumOver(f, I) ==
  IF I = {} THEN 0
  ELSE LET i == CHOOSE i \in I : TRUE IN f[i] + SumOver(f, I \ {i})

\* The integer square root, by bisection on lo..hi.
RECURSIVE Bisect(_, _, _)
Bisect(n, lo, hi) ==
  IF lo = hi THEN lo
  ELSE LET mid == (lo + hi + 1) \div 2
       IN IF mid * mid <= n THEN Bisect(n, mid, hi) ELSE Bisect(n, lo, mid - 1)

ISqrt(n) == Bisect(n, 0, 46340)

\* mean of a group: NaN when every row is missing.
GroupMean(w, d) ==
  LET I == Rows(w, d)
  IN IF I = {} THEN NaN
     ELSE Num(SumOver([i \in I |-> w.temperature_2m[i].v], I) \div Cardinality(I))

\* std of a group (ddof = 1): NaN for fewer than two rows.
GroupStd(w, d) ==
  LET I == Rows(w, d)
      n == Cardinality(I)
      mean == SumOver([i \in I |-> w.temperature_2m[i].v], I) \div n
      sq == [i \in I |->
               ((w.temperature_2m[i].v - mean) * (w.temperature_2m[i].v - mean))
               \div 100]
  IN IF n < 2 THEN NaN
     ELSE Num(ISqrt((SumOver(sq, I) \div (n - 1)) * 100))

\* The dict handed to WeatherData(**daily_averages).
DailyAverages(w) ==
  LET keys == GroupKeys(w.time)
  IN [day_of_year |-> keys,
      temp_daily_avg |-> [i \in 1..Len(keys) |-> GroupMean(w, keys[i])],
      temp_daily_std |-> [i \in 1..Len(keys) |-> GroupStd(w, keys[i])]]

\* compute_daily_averages(weather_data): the call's outcome and the value
\* returned.  The DataFrame needs arrays of one length; .dt needs a
\* datetime column, which an empty list does not give.
compute_daily_averages(w) ==
  IF Len(w.time) # Len(w.temperature_2m)
  THEN [call |-> Raised("compute_daily_averages", "ValueError", {}),
        value |-> NoWeatherData]
  ELSE IF Len(w.time) = 0
  THEN [call |-> Raised("compute_daily_averages", "AttributeError", {}),
        value |-> NoWeatherData]
  ELSE LET d == DailyAverages(w)
           v == WeatherData(d)
       IN IF v.exc # ""
          THEN [call |-> Raised("compute_daily_averages", v.exc, v.errors),
                value |-> NoWeatherData]
          ELSE [call |-> Returned("compute_daily_averages"), value |-> Stats(d)]

(***************************************************************************)
(* Confidence bounds                                                       *)
(***************************************************************************)
NegInf == [k |-> "ninf", v |-> 0]

\* Confidence levels tried, in hundredths: 0.0, 0.68, 0.95, 1.0, 1.5.
Levels == {0, 68, 95, 100, 150}

\* z_score = np.sqrt(2) * erfinv(confidence_level), in thousandths: erfinv
\* is 0 at 0, infinite at 1 and NaN beyond 1.
z_score(level) ==
  CASE level = 0 -> Num(0)
    [] level = 68 -> Num(994)
    [] level = 95 -> Num(1960)
    [] level = 100 -> Inf
    [] OTHER -> NaN

Sign(x) ==
  CASE x.k = "inf" -> 1
    [] x.k = "ninf" -> -1
    [] x.v > 0 -> 1
    [] x.v < 0 -> -1
    [] OTHER -> 0

\* z * std as floats: z in thousandths, std in hundredths.
Times(z, x) ==
  IF z.k = "nan" \/ x.k = "nan" THEN NaN
  ELSE IF z.k = "num" /\ x.k = "num" THEN Num((z.v * x.v) \div 1000)
  ELSE IF Sign(z) * Sign(x) = 0 THEN NaN
  ELSE IF Sign(z) * Sign(x) > 0 THEN Inf
  ELSE NegInf

Negate(x) ==
  CASE x.k = "num" -> Num(-x.v)
    [] x.k = "inf" -> NegInf
    [] x.k = "ninf" -> Inf
    [] OTHER -> x

Plus(x, y) ==
  IF x.k = "nan" \/ y.k = "nan" THEN NaN
  ELSE IF x.k = "num" /\ y.k = "num" THEN Num(x.v + y.v)
  ELSE IF x.k = "num" THEN y
  ELSE IF y.k = "num" \/ x.k = y.k THEN x
  ELSE NaN

Min(a, b) == IF a < b THEN a ELSE b

\* zip(self.temp_daily_avg, self.temp_daily_std) stops at the shorter list.
temp_daily_lower_bound(self, confidence_level) ==
  [i \in 1..Min(Len(self.temp_daily_avg), Len(self.temp_daily_std)) |->
     Plus(self.temp_daily_avg[i],
          Negate(Times(z_score(confidence_level), self.temp_daily_std[i])))]

temp_daily_upper_bound(self, confidence_level) ==
  [i \in 1..Min(Len(self.temp_daily_avg), Len(self.temp_daily_std)) |->
     Plus(self.temp_daily_avg[i],
          Times(z_score(confidence_level), self.temp_daily_std[i]))]

(***************************************************************************)
(* JSON text: a sequence of tokens, each a sequence of characters          *)
(***************************************************************************)
DigitChars == <<"0", "1", "2", "3", "4", "5", "6", "7", "8", "9">>

\* The decimal digits of a natural below 10^9.
Digits(n) ==
  LET L == CHOOSE L \in 1..9 : n < 10 ^ L /\ (L = 1 \/ 10 ^ (L - 1) <= n)
  IN [i \in 1..L |-> DigitChars[((n \div 10 ^ (L - i)) % 10) + 1]]

\* json.dumps of an int.
FormatInt(n) == IF n < 0 THEN <<"-">> \o Digits(-n) ELSE Digits(n)

\* A float written with one decimal place only.
FormatFloatOnePlace(x) ==
  CASE x.k = "inf" -> <<"Infinity">>
    [] x.k = "ninf" -> <<"-Infinity">>
    [] x.k = "nan" -> <<"NaN">>
    [] x.k = "none" -> <<"null">>
    [] OTHER ->
        LET a == IF x.v < 0 THEN -x.v ELSE x.v
        IN (IF x.v < 0 THEN <<"-">> ELSE <<>>) \o Digits(a \div 100)
           \o <<".", DigitChars[((a % 100) \div 10) + 1]>>

\* json.dumps of a float: the shortest repr, Infinity and NaN spelled out.
FormatFloat(x) ==
  CASE x.k = "inf" -> <<"Infinity">>
    [] x.k = "ninf" -> <<"-Infinity">>
    [] x.k = "nan" -> <<"NaN">>
    [] x.k = "none" -> <<"null">>
    [] OTHER ->
        LET a == IF x.v < 0 THEN -x.v ELSE x.v
            frac == IF a % 10 = 0 THEN <<DigitChars[((a % 100) \div 10) + 1]>>
                    ELSE <<DigitChars[((a % 100) \div 10) + 1],
                           DigitChars[(a % 10) + 1]>>
        IN (IF x.v < 0 THEN <<"-">> ELSE <<>>) \o Digits(a \div 100)
           \o <<".">> \o frac

DigitValue(c) == (CHOOSE d \in 1..10 : DigitChars[d] = c) - 1

\* The natural written by characters i..j of t.
RECURSIVE DigitsValue(_, _, _)
DigitsValue(t, i, j) ==
  IF j < i THEN 0 ELSE DigitsValue(t, i, j - 1) * 10 + DigitValue(t[j])

\* json.loads of a number token, as an int.
ParseInt(t) ==
  IF t[1] = "-" THEN -DigitsValue(t, 2, Len(t)) ELSE DigitsValue(t, 1, Len(t))

\* json.loads of a number token, as a float (hundredths).
ParseFloat(t) ==
  CASE t = <<"Infinity">> -> Inf
    [] t = <<"-Infinity">> -> NegInf
    [] t = <<"NaN">> -> NaN
    [] t = <<"null">> -> None
    [] OTHER ->
        LET neg == t[1] = "-"
            dot == CHOOSE i \in 1..Len(t) : t[i] = "."
            whole == DigitsValue(t, IF neg THEN 2 ELSE 1, dot - 1)
            frac == IF Len(t) - dot = 1 THEN DigitValue(t[dot + 1]) * 10
                    ELSE DigitsValue(t, dot + 1, dot + 2)
        IN Num((IF neg THEN -1 ELSE 1) * (whole * 100 + frac))

LBrace == <<"{">>
RBrace == <<"}">>
LBracket == <<"[">>
RBracket == <<"]">>
Comma == <<",">>
Colon == <<":">>
Newline == <<"\n">>
Key(name) == <<name>>

\* A JSON array of numbers, one per line.
EncodeList(xs, Format(_)) ==
  <<LBracket>>
  \o [j \in 1..(3 * Len(xs)) |->
        IF j % 3 = 1 THEN Newline
        ELSE IF j % 3 = 2 THEN Format(xs[(j + 1) \div 3])
        ELSE IF j = 3 * Len(xs) THEN Newline ELSE Comma]
  \o <<RBracket>>

\* WeatherData.json(indent=2)
EncodeWeatherData(w) ==
  <<LBrace, Newline, Key("day_of_year"), Colon>>
  \o EncodeList(w.day_of_year, FormatInt)
  \o <<Comma, Newline, Key("temp_daily_avg"), Colon>>
  \o EncodeList(w.temp_daily_avg, FormatFloat)
  \o <<Comma, Newline, Key("temp_daily_std"), Colon>>
  \o EncodeList(w.temp_daily_std, FormatFloat)
  \o <<Newline, RBrace>>

\* WeatherDatasets(datasets={...}).json(indent=2), as save_data writes it.
EncodeDatasets(long_term, recent) ==
  <<LBrace, Newline, Key("datasets"), Colon, LBrace, Newline,
    Key("long_term_daily_averages"), Colon>>
  \o EncodeWeatherData(long_term)
  \o <<Comma, Newline, Key("weather_data_2023"), Colon>>
  \o EncodeWeatherData(recent)
  \o <<Newline, RBrace, Newline, RBrace>>

\* The tokens of a text without its whitespace.
Lex(text) == SelectSeq(text, LAMBDA t : t # Newline)

\* The least index after from where token tok stands.
Find(toks, tok, from) ==
  CHOOSE i \in (from + 1)..Len(toks) :
    toks[i] = tok /\ \A j \in (from + 1)..(i - 1) : toks[j] # tok

\* The numbers of the array that is the value of key name, read after from.
DecodeList(toks, name, from, Parse(_)) ==
  LET open == Find(toks, Key(name), from) + 2
      close == Find(toks, RBracket, open)
  IN [i \in 1..((close - open) \div 2) |-> Parse(toks[open + 2 * i - 1])]

\* The fields of the WeatherData object read after index from.
DecodeFields(toks, from) ==
  [day_of_year |-> DecodeList(toks, "day_of_year", from, ParseInt),
   temp_daily_avg |-> DecodeList(toks, "temp_daily_avg", from, ParseFloat),
   temp_daily_std |-> DecodeList(toks, "temp_daily_std", from, ParseFloat)]

\* WeatherData.parse_raw(text): the outcome and the object.
DecodeWeatherData(text) ==
  LET p == DecodeFields(Lex(text), 0)
      v == WeatherData(p)
  IN [call |-> v, value |-> IF v.exc = "" THEN Stats(p) ELSE NoWeatherData]

NoDatasets ==
  [exists |-> FALSE, long_term_daily_averages |-> NoWeatherData,
   weather_data_2023 |-> NoWeatherData]

\* WeatherDatasets.parse_raw(text): the outcome and the two datasets.
DecodeDatasets(text) ==
  LET toks == Lex(text)
      p1 == DecodeFields(toks, Find(toks, Key("long_term_daily_averages"), 0))
      p2 == DecodeFields(toks, Find(toks, Key("weather_data_2023"), 0))
      errors == WeatherData(p1).errors \cup WeatherData(p2).errors
  IN IF errors # {}
     THEN [call |-> Raised("WeatherDatasets", "ValidationError", errors),
           value |-> NoDatasets]
     ELSE [call |-> Returned("WeatherDatasets"),
           value |-> [exists |-> TRUE, long_term_daily_averages |-> Stats(p1),
                      weather_data_2023 |-> Stats(p2)]]

(***************************************************************************)
(* The statistics files read                                               *)
(***************************************************************************)
FileDays == {0, 1}
FileAvgs == {Num(-27316), Num(ABSOLUTE_ZERO_C), Inf}
FileStds == {NaN, Num(141)}

Files ==
  [day_of_year : SeqsUpTo(FileDays, MaxStats),
   temp_daily_avg : SeqsUpTo(FileAvgs, MaxStats),
   temp_daily_std : SeqsUpTo(FileStds, MaxStats)]

NoPayload == [unit |-> CELSIUS, time |-> <<>>, temperature_2m |-> <<>>]
NoFile == [day_of_year |-> <<>>, temp_daily_avg |-> <<>>, temp_daily_std |-> <<>>]
NoBound == [method |-> "", of |-> "", level |-> 0, values |-> <<>>]

\* Two payloads of hourly data that aggregate: two readings on day 1, and
\* two readings on each of two days out of order.
ReferencePayloads ==
  {[unit |-> CELSIUS, time |-> <<1, 1>>,
    temperature_2m |-> <<Num(0), Num(200)>>],
   [unit |-> CELSIUS, time |-> <<2, 1, 2, 1>>,
    temperature_2m |-> <<Num(200), Num(-105), Num(200), Num(0)>>]}

(***************************************************************************)
(* The program: main() and the calls a client can make on its objects      *)
(***************************************************************************)
VARIABLES
  payload,                  \* the response body last fetched
  weather_data_2023,        \* the OpenMeteoResponse object
  daily_averages_2023,      \* the WeatherData computed from it
  file,                     \* the content of noaa_long_term_avgs.json
  long_term_daily_averages, \* the WeatherData parsed from the file
  bound,                    \* the last confidence bound computed
  combined_data,            \* the text of combined_data.json
  decoded,                  \* the WeatherDatasets parsed back from that text
  call                      \* the last call: its name and what it raised

vars ==
  <<payload, weather_data_2023, daily_averages_2023, file,
    long_term_daily_averages, bound, combined_data, decoded, call>>

\* No exception has ended the program.
Running == call.exc = ""

Init ==
  /\ payload = NoPayload
  /\ weather_data_2023 = NoResponse
  /\ daily_averages_2023 = NoWeatherData
  /\ file = NoFile
  /\ long_term_daily_averages = NoWeatherData
  /\ bound = NoBound
  /\ combined_data = <<>>
  /\ decoded = NoDatasets
  /\ call = NoCall

\* The state main() is in once a reference payload has been fetched.
InitFetched ==
  /\ payload \in ReferencePayloads
  /\ weather_data_2023 = Response(payload)
  /\ daily_averages_2023 = NoWeatherData
  /\ file = NoFile
  /\ long_term_daily_averages = NoWeatherData
  /\ bound = NoBound
  /\ combined_data = <<>>
  /\ decoded = NoDatasets
  /\ call = Returned("OpenMeteoResponse")

\* OpenMeteoResponse.parse_raw(response.content), the body one of P.
ParseResponse(P) ==
  /\ call = NoCall
  /\ \E p \in P :
       LET r == OpenMeteoResponse(p)
       IN /\ payload' = p
          /\ call' = r
          /\ weather_data_2023' = IF r.exc = "" THEN Response(p) ELSE NoResponse
  /\ UNCHANGED <<daily_averages_2023, file, long_term_daily_averages, bound,
                 combined_data, decoded>>

\* weather_data_2023 = fetch_recent_weather_data(): any body.
fetch_recent_weather_data == ParseResponse(Payloads)

\* The same, the service answering with well-formed hourly data.
FetchHourly == ParseResponse(HourlyPayloads)

\* daily_averages_2023 = compute_daily_averages(weather_data_2023)
ComputeDailyAverages ==
  /\ Running
  /\ weather_data_2023.exists
  /\ ~daily_averages_2023.exists
  /\ LET r == compute_daily_averages(weather_data_2023)
     IN /\ call' = r.call
        /\ daily_averages_2023' = r.value
  /\ UNCHANGED <<payload, weather_data_2023, file, long_term_daily_averages,
                 bound, combined_data, decoded>>

\* long_term_daily_averages = WeatherData.parse_file(fpath_noaa_data)
ParseFile ==
  /\ Running
  /\ ~long_term_daily_averages.exists
  /\ combined_data = <<>>
  /\ \E f \in Files :
       LET r == WeatherData(f)
       IN /\ file' = f
          /\ call' = r
          /\ long_term_daily_averages' =
               IF r.exc = "" THEN Stats(f) ELSE NoWeatherData
  /\ UNCHANGED <<payload, weather_data_2023, daily_averages_2023, bound,
                 combined_data, decoded>>

\* The WeatherData objects a bound can be asked of.
Datasets ==
  [long_term_daily_averages |-> long_term_daily_averages,
   weather_data_2023 |-> daily_averages_2023]

DatasetNames == {"long_term_daily_averages", "weather_data_2023"}

\* <dataset>.temp_daily_lower_bound(confidence_level=c)
LowerBound ==
  /\ Running
  /\ combined_data = <<>>
  /\ \E n \in DatasetNames, c \in Levels :
       /\ Datasets[n].exists
       /\ bound' = [method |-> "temp_daily_lower_bound", of |-> n, level |-> c,
                    values |-> temp_daily_lower_bound(Datasets[n], c)]
  /\ call' = Returned("temp_daily_lower_bound")
  /\ UNCHANGED <<payload, weather_data_2023, daily_averages_2023, file,
                 long_term_daily_averages, combined_data, decoded>>

\* <dataset>.temp_daily_upper_bound(confidence_level=c)
UpperBound ==
  /\ Running
  /\ combined_data = <<>>
  /\ \E n \in DatasetNames, c \in Levels :
       /\ Datasets[n].exists
       /\ bound' = [method |-> "temp_daily_upper_bound", of |-> n, level |-> c,
                    values |-> temp_daily_upper_bound(Datasets[n], c)]
  /\ call' = Returned("temp_daily_upper_bound")
  /\ UNCHANGED <<payload, weather_data_2023, daily_averages_2023, file,
                 long_term_daily_averages, combined_data, decoded>>

\* save_data(long_term_daily_averages, daily_averages_2023): the arguments
\* are model instances already, and are not validated again.
save_data ==
  /\ Running
  /\ long_term_daily_averages.exists
  /\ daily_averages_2023.exists
  /\ combined_data = <<>>
  /\ combined_data' = EncodeDatasets(long_term_daily_averages, daily_averages_2023)
  /\ call' = Returned("save_data")
  /\ UNCHANGED <<payload, weather_data_2023, daily_averages_2023, file,
                 long_term_daily_averages, bound, decoded>>

\* WeatherDatasets.parse_raw(<the text written>)
ParseRaw ==
  /\ Running
  /\ combined_data # <<>>
  /\ ~decoded.exists
  /\ LET r == DecodeDatasets(combined_data)
     IN /\ call' = r.call
        /\ decoded' = r.value
  /\ UNCHANGED <<payload, weather_data_2023, daily_averages_2023, file,
                 long_term_daily_averages, bound, combined_data>>

\* weather_data_2023.hourly.temperature_2m[i] = t: the models set no Config,
\* so fields are assignable and nothing is validated on assignment.
SetTemperature ==
  /\ Running
  /\ weather_data_2023.exists
  /\ ~daily_averages_2023.exists
  /\ \E i \in 1..Len(weather_data_2023.temperature_2m), t \in Temps :
       weather_data_2023' =
         [weather_data_2023 EXCEPT !.temperature_2m[i] = t]
  /\ call' = Returned("__setitem__")
  /\ UNCHANGED <<payload, daily_averages_2023, file, long_term_daily_averages,
                 bound, combined_data, decoded>>

\* weather_data_2023.hourly.temperature_2m.append(t)
AppendTemperature ==
  /\ Running
  /\ weather_data_2023.exists
  /\ ~daily_averages_2023.exists
  /\ Len(weather_data_2023.temperature_2m) < MaxLen
  /\ \E t \in Temps :
       weather_data_2023' =
         [weather_data_2023 EXCEPT !.temperature_2m = Append(@, t)]
  /\ call' = Returned("append")
  /\ UNCHANGED <<payload, daily_averages_2023, file, long_term_daily_averages,
                 bound, combined_data, decoded>>

\* daily_averages_2023.temp_daily_std = v
SetStd ==
  /\ Running
  /\ daily_averages_2023.exists
  /\ \E v \in SeqsUpTo(FileStds, MaxStats) :
       daily_averages_2023' = [daily_averages_2023 EXCEPT !.temp_daily_std = v]
  /\ call' = Returned("__setattr__")
  /\ UNCHANGED <<payload, weather_data_2023, file, long_term_daily_averages,
                 bound, combined_data, decoded>>

\* Ingestion of any payload, and aggregation.
Next == fetch_recent_weather_data \/ ComputeDailyAverages

Spec == Init /\ [][Next]_vars

\* Ingestion of well-formed hourly data, and aggregation.
NextHourly == FetchHourly \/ ComputeDailyAverages

SpecHourly == Init /\ [][NextHourly]_vars

\* A client that assigns to the objects it holds.
NextMutation ==
  \/ SetTemperature
  \/ AppendTemperature
  \/ ComputeDailyAverages
  \/ SetStd

SpecMutation == InitFetched /\ [][NextMutation]_vars

\* The statistics file and the confidence bounds.
NextBounds == ComputeDailyAverages \/ ParseFile \/ LowerBound \/ UpperBound

SpecBounds == InitFetched /\ [][NextBounds]_vars

\* The statistics file, the text written and read back.
NextSerial == ComputeDailyAverages \/ ParseFile \/ save_data \/ ParseRaw

SpecSerial == InitFetched /\ [][NextSerial]_vars

(***************************************************************************)
(* Properties                                                              *)
(***************************************************************************)
UnitKnown == payload.unit \in {CELSIUS, FAHRENHEIT}
SameLength == Len(payload.time) = Len(payload.temperature_2m)
Constructing == call.op = "OpenMeteoResponse"
NoneAt(i) == payload.temperature_2m[i].k = "none"

\* C1: constructing an OpenMeteoResponse whose time and temperature arrays
\* differ in length fails with a ValidationError that reports the length
\* mismatch.
C1_LengthMismatchIsValidationError ==
  (Constructing /\ UnitKnown /\ ~SameLength)
    => /\ call.exc = "ValidationError"
       /\ "time array and temperature array are not the same length"
            \in call.errors

\* The floor the specification gives each unit, in hundredths.
FloorLiteral(unit) == IF unit = FAHRENHEIT THEN -45967 ELSE ABSOLUTE_ZERO_C

\* C2: with every sample present, construction fails exactly when some
\* sample is below the unit's floor: -273.15 in Celsius, -459.67 in
\* Fahrenheit; a sample equal to the floor is accepted.
C2_FloorDependsOnUnit ==
  (/\ Constructing /\ UnitKnown /\ SameLength
   /\ \A i \in 1..Len(payload.temperature_2m) : ~NoneAt(i))
    => (call.exc = ""
          <=> \A i \in 1..Len(payload.temperature_2m) :
                payload.temperature_2m[i].v >= FloorLiteral(payload.unit))

\* C3: a payload of equal-length arrays with missing temperatures, whose
\* present temperatures are all at or above the floor, constructs.
C3_MissingTemperaturesAdmitted ==
  (/\ Constructing /\ UnitKnown /\ SameLength
   /\ \E i \in 1..Len(payload.temperature_2m) : NoneAt(i)
   /\ \A i \in 1..Len(payload.temperature_2m) :
        NoneAt(i) \/ FGe(FloatOf(payload.temperature_2m[i]),
                         min_temp(payload.unit)))
    => (call.exc = "" /\ weather_data_2023.exists)

EqualLengths(w) ==
  /\ Len(w.day_of_year) = Len(w.temp_daily_avg)
  /\ Len(w.day_of_year) = Len(w.temp_daily_std)

\* C4: every WeatherData that exists, parsed from a file or read back from
\* the text written, has three arrays of one length.
C4_StatsArraysEqualLength ==
  /\ long_term_daily_averages.exists => EqualLengths(long_term_daily_averages)
  /\ decoded.exists => EqualLengths(decoded.long_term_daily_averages)

\* C5: compute_daily_averages never raises on an OpenMeteoResponse that
\* was constructed, and returns a WeatherData.
C5_AggregatorTotal ==
  call.op = "compute_daily_averages"
    => (call.exc = "" /\ daily_averages_2023.exists)

Reorderings(n) ==
  {f \in [1..n -> 1..n] : \A i, j \in 1..n : f[i] = f[j] => i = j}

Permuted(w, f) ==
  [w EXCEPT !.time = [i \in 1..Len(w.time) |-> w.time[f[i]]],
            !.temperature_2m =
              [i \in 1..Len(w.time) |-> w.temperature_2m[f[i]]]]

\* C6: aggregating an observation yields daily statistics with one entry
\* for each day of the input, the days strictly ascending, entry i being the
\* mean of the readings of day_of_year[i]; and aggregating any reordering of
\* the hourly samples yields the same statistics.
C6_AggregationOrderIndependent ==
  call.op = "compute_daily_averages"
    => LET w == weather_data_2023
           r == daily_averages_2023
       IN /\ r.exists
          /\ \A v \in {Permuted(w, f) : f \in Reorderings(Len(w.time))} :
               compute_daily_averages(v) = [call |-> call, value |-> r]
          /\ {r.day_of_year[i] : i \in 1..Len(r.day_of_year)}
               = {w.time[i] : i \in 1..Len(w.time)}
          /\ \A i \in 1..(Len(r.day_of_year) - 1) :
               r.day_of_year[i] < r.day_of_year[i + 1]
          /\ EqualLengths(r)
          /\ \A i \in 1..Len(r.day_of_year) :
               LET I == {j \in 1..Len(w.time) : w.time[j] = r.day_of_year[i]}
                   total == SumOver([j \in I |-> w.temperature_2m[j].v], I)
                   n == Cardinality(I)
               IN /\ n * r.temp_daily_avg[i].v <= total
                  /\ total < n * (r.temp_daily_avg[i].v + 1)

BoundCalled == call.op \in {"temp_daily_lower_bound", "temp_daily_upper_bound"}

\* C7: a bound asked with a confidence level outside (0, 1) fails with
\* InvalidArgument.
C7_LevelOutsideUnitIntervalRejected ==
  (BoundCalled /\ (bound.level <= 0 \/ bound.level >= 100))
    => call.exc = "InvalidArgument"

\* C8: for a level inside (0, 1) a bound has one entry for each day, entry i
\* being mean[i] - z*std[i] (lower) or mean[i] + z*std[i] (upper), the two,
\* where finite, at equal distance from the mean.
C8_BoundsDayAligned ==
  (BoundCalled /\ bound.level > 0 /\ bound.level < 100)
    => LET x == Datasets[bound.of]
           lower == temp_daily_lower_bound(x, bound.level)
           upper == temp_daily_upper_bound(x, bound.level)
       IN /\ Len(bound.values) = Len(x.day_of_year)
          /\ Len(lower) = Len(x.day_of_year)
          /\ Len(upper) = Len(x.day_of_year)
          /\ \A i \in 1..Len(x.day_of_year) :
               /\ bound.values[i]
                    = IF bound.method = "temp_daily_lower_bound"
                      THEN lower[i] ELSE upper[i]
               /\ (lower[i].k = "num" /\ upper[i].k = "num") =>
                    Plus(upper[i], Negate(x.temp_daily_avg[i]))
                      = Plus(x.temp_daily_avg[i], Negate(lower[i]))

\* C9: the text written by save_data reads back as the two datasets
\* written, and each WeatherData reads back from its own text as itself.
C9_RoundTrip ==
  /\ call.op = "WeatherDatasets" =>
       /\ call.exc = ""
       /\ decoded.exists
       /\ decoded.long_term_daily_averages = long_term_daily_averages
       /\ decoded.weather_data_2023 = daily_averages_2023
  /\ \A n \in DatasetNames :
       Datasets[n].exists =>
         DecodeWeatherData(EncodeWeatherData(Datasets[n]))
           = [call |-> Returned("WeatherData"), value |-> Datasets[n]]

\* A file of two days with a negative mean of two decimal places and an
\* infinite one, written and read back.
C9_Witness ==
  /\ call.op = "WeatherDatasets"
  /\ decoded.exists
  /\ long_term_daily_averages.day_of_year = <<1, 1>>
  /\ long_term_daily_averages.temp_daily_avg = <<Num(ABSOLUTE_ZERO_C), Inf>>
  /\ long_term_daily_averages.temp_daily_std = <<Num(141), Num(141)>>
  /\ daily_averages_2023.exists

\* C10: an OpenMeteoResponse or WeatherData that exists keeps what its
\* construction checked: arrays of one length, every temperature at or
\* above the floor, every standard deviation non-negative.
C10_ObjectsStayValid ==
  /\ weather_data_2023.exists =>
       /\ Len(weather_data_2023.time) = Len(weather_data_2023.temperature_2m)
       /\ FirstBad(weather_data_2023.temperature_2m, 1,
                   min_temp(weather_data_2023.unit)) = ""
  /\ daily_averages_2023.exists =>
       WeatherData(daily_averages_2023).exc = ""
====
